---- MODULE Spec2Model ----
(***************************************************************************)
(* A model of Haystack (src/src/haystack.ts): the search pipeline of the   *)
(* Haystack class -- input validation, query preparation, the array and    *)
(* object matchers, the levenshtein table, de-duplication and the bubble   *)
(* sort -- as a state machine whose single operation is one synchronous    *)
(* call of search() on a pool object owned by the caller.                  *)
(*                                                                         *)
(* A JavaScript string is a sequence of one-character strings.  Every      *)
(* other JavaScript value is a record tagged with its type.                *)
(***************************************************************************)
EXTENDS Integers, Sequences, FiniteSets, TLC

VARIABLES
    options,        \* this.options of the Haystack instance
    source,         \* the caller's pool object, as it is now
    called,         \* whether search() has been called yet
    query,          \* the query argument of the last call
    limit,          \* the limit argument of the last call (Undefined: omitted)
    sourceBefore,   \* the pool object as it was when the last call was made
    searchResults,  \* the matcher's output in the last call
    returned,       \* how the last call completed, and its value
    consoleError,   \* the messages the last call gave console.error
    pool0,          \* the pool object as the caller made it, before any call
    opName,         \* the function last applied on its own ("none": none yet)
    opArgs,         \* its arguments
    opResult,       \* what it returned
    heap,           \* the objects of a pool that refers to objects by identity
    stack,          \* the calls of searchObject in progress, the innermost last
    visits          \* how many times searchObject was called on each object

vars == <<options, source, called, query, limit, sourceBefore, searchResults,
          returned, consoleError, pool0, opName, opArgs, opResult, heap, stack, visits>>

----------------------------------------------------------------------------
(* JavaScript values *)

Str(s) == [type |-> "string", chars |-> s]
Num(n) == [type |-> "number", num |-> n]
Bool(b) == [type |-> "boolean", bool |-> b]
Undefined == [type |-> "undefined"]
Null == [type |-> "null"]
Arr(items) == [type |-> "array", items |-> items]
\* props: the own enumerable properties in for..in order, each [key, value]
Obj(props) == [type |-> "object", props |-> props]

\* if (v) ...
Truthy(v) ==
    CASE v.type = "string" -> Len(v.chars) > 0
      [] v.type = "number" -> v.num # 0
      [] v.type = "boolean" -> v.bool
      [] v.type = "undefined" -> FALSE
      [] v.type = "null" -> FALSE
      [] OTHER -> TRUE

\* typeof v
TypeOf(v) ==
    CASE v.type = "string" -> "string"
      [] v.type = "number" -> "number"
      [] v.type = "boolean" -> "boolean"
      [] v.type = "undefined" -> "undefined"
      [] OTHER -> "object"

Digit(d) == <<"0","1","2","3","4","5","6","7","8","9">>[d + 1]

RECURSIVE Digits(_)
Digits(n) == IF n < 10 THEN <<Digit(n)>> ELSE Digits(n \div 10) \o <<Digit(n % 10)>>

\* Array.prototype.join
RECURSIVE Join(_, _)
Join(strs, sep) ==
    IF Len(strs) = 0 THEN <<>>
    ELSE IF Len(strs) = 1 THEN strs[1]
    ELSE strs[1] \o sep \o Join(Tail(strs), sep)

\* String(v)
RECURSIVE JsString(_)
JsString(v) ==
    CASE v.type = "string" -> v.chars
      [] v.type = "number" -> Digits(v.num)
      [] v.type = "boolean" -> IF v.bool THEN <<"t","r","u","e">> ELSE <<"f","a","l","s","e">>
      [] v.type = "undefined" -> <<"u","n","d","e","f","i","n","e","d">>
      [] v.type = "null" -> <<"n","u","l","l">>
      [] v.type = "array" ->
            Join([i \in 1..Len(v.items) |->
                     IF v.items[i].type \in {"undefined", "null"} THEN <<>>
                     ELSE JsString(v.items[i])], <<",">>)
      [] OTHER -> <<"[","o","b","j","e","c","t"," ","O","b","j","e","c","t","]">>

----------------------------------------------------------------------------
(* String.prototype methods *)

LowerChar(c) ==
    CASE c = "A" -> "a" [] c = "D" -> "d" [] c = "E" -> "e" [] c = "J" -> "j" [] c = "N" -> "n"
      [] c = "T" -> "t" [] c = "U" -> "u" [] OTHER -> c

toLowerCase(s) == [i \in 1..Len(s) |-> LowerChar(s[i])]

IsSpace(c) == c = " "

RECURSIVE TrimStart(_)
TrimStart(s) == IF Len(s) > 0 /\ IsSpace(s[1]) THEN TrimStart(Tail(s)) ELSE s

RECURSIVE TrimEnd(_)
TrimEnd(s) ==
    IF Len(s) > 0 /\ IsSpace(s[Len(s)]) THEN TrimEnd(SubSeq(s, 1, Len(s) - 1)) ELSE s

trim(s) == TrimEnd(TrimStart(s))

\* s.indexOf(t): the 0-based index of the first occurrence of t, or -1
indexOf(s, t) ==
    LET at == {i \in 0..(Len(s) - Len(t)) : SubSeq(s, i + 1, i + Len(t)) = t}
    IN  IF at = {} THEN 0 - 1 ELSE CHOOSE i \in at : \A k \in at : i <= k

\* s.charAt(i), i 0-based: the empty string past the end
charAt(s, i) == IF i >= 0 /\ i < Len(s) THEN s[i + 1] ELSE ""

\* s.split(d)
RECURSIVE split(_, _)
split(s, d) ==
    IF Len(d) = 0 THEN [i \in 1..Len(s) |-> <<s[i]>>]
    ELSE LET at == indexOf(s, d)
         IN  IF at = 0 - 1 THEN <<s>>
             ELSE <<SubSeq(s, 1, at)>> \o split(SubSeq(s, at + Len(d) + 1, Len(s)), d)

\* s.replace(item, ''), item a string: the first occurrence only
replaceFirst(s, item) ==
    LET at == indexOf(s, item)
    IN  IF at = 0 - 1 THEN s
        ELSE SubSeq(s, 1, at) \o SubSeq(s, at + Len(item) + 1, Len(s))

\* arr.includes(x)
includes(arr, x) == \E i \in 1..Len(arr) : arr[i] = x

\* arr.indexOf(x), 0-based, -1 when absent
arrayIndexOf(arr, x) ==
    LET at == {i \in 1..Len(arr) : arr[i] = x}
    IN  IF at = {} THEN 0 - 1 ELSE (CHOOSE i \in at : \A k \in at : i <= k) - 1

\* arr.slice(0, n), n >= 0
slice0(arr, n) == SubSeq(arr, 1, IF n < Len(arr) THEN n ELSE Len(arr))

----------------------------------------------------------------------------
(* The functions of haystack.ts *)

\* a < b, a <= b, a > b on JavaScript values: false when either is undefined
JsLE(a, b) == a.type = "number" /\ b.type = "number" /\ a.num <= b.num
JsGT(a, b) == a.type = "number" /\ b.type = "number" /\ a.num > b.num

getDataType(src) ==
    IF Truthy(src) THEN
        IF src.type = "array" THEN "array"
        ELSE IF src.type = "object" THEN "object"
        ELSE IF src.type = "string" THEN "string"
        ELSE "undefined"
    ELSE "undefined"

RECURSIVE WithoutEmpty(_)
WithoutEmpty(strs) ==
    IF Len(strs) = 0 THEN <<>>
    ELSE (IF Len(Head(strs)) > 0 THEN <<Head(strs)>> ELSE <<>>) \o WithoutEmpty(Tail(strs))

\* The split with the empty tokens dropped
tokenizeNonEmpty(input, delimiter) == WithoutEmpty(split(input, delimiter))

tokenize(input, delimiter) == split(input, delimiter)

stopWords == << <<"t","h","e">>, <<"a">>, <<"t","o">>, <<"o","n">>, <<"i","n">>,
                <<"i","s">>, <<"o","f">>, <<"a","n","d">> >>

RECURSIVE WithoutStopWords(_)
WithoutStopWords(words) ==
    IF Len(words) = 0 THEN <<>>
    ELSE (IF ~includes(stopWords, Head(words)) THEN <<Head(words)>> ELSE <<>>)
            \o WithoutStopWords(Tail(words))

removeStopWords(q) == Join(WithoutStopWords(split(q, <<" ">>)), <<" ">>)

\* the stemmer package, by its least behaviour: one trailing "s" is dropped
stemmer(token) ==
    IF Len(token) > 0 /\ token[Len(token)] = "s" THEN SubSeq(token, 1, Len(token) - 1)
    ELSE token

RECURSIVE RemoveExclusions(_, _)
RemoveExclusions(q, exclusions) ==
    IF Len(exclusions) = 0 THEN q
    ELSE RemoveExclusions(replaceFirst(q, Head(exclusions)), Tail(exclusions))

prepareQuery(q, opts) ==
    LET q1 == IF opts.ignoreStopWords THEN removeStopWords(q) ELSE q
        q2 == IF Len(opts.exclusions) > 0 THEN RemoveExclusions(q1, opts.exclusions) ELSE q1
        q3 == IF opts.caseSensitive THEN trim(q2) ELSE toLowerCase(trim(q2))
        tokens == split(q3, <<" ">>)
    IN  IF opts.stemming
        THEN Join([i \in 1..Len(tokens) |-> stemmer(tokens[i])], <<" ">>)
        ELSE q3

minimum(a, b, c) ==
    LET min1 == IF b < a THEN b ELSE a
    IN  IF c < min1 THEN c ELSE min1

\* A number, or undefined when word1 is empty.  Both n and m are word1.length.
levenshtein(word1, word2) ==
    LET n == Len(word1)
        m == Len(word1)
        cost[i \in 0..n, j \in 0..m] ==
            IF i = 0 THEN j
            ELSE IF j = 0 THEN i
            ELSE IF charAt(word1, i - 1) = charAt(word2, j - 1) THEN cost[i - 1, j - 1]
            ELSE 1 + minimum(cost[i - 1, j - 1], cost[i, j - 1], cost[i - 1, j])
    IN  IF n = 0 THEN Undefined
        ELSE IF m = 0 THEN Undefined
        ELSE Num(cost[n, m])

\* The token test with every token looked for at the start of the value
arrayAllTokensAtStart(value, tokens) ==
    \A j \in 1..Len(tokens) : indexOf(value, tokens[j]) = 0

\* searchArray, lines 154-161: is every token found in the value
arrayAllTokensFound(value, tokens) ==
    \A j \in 1..Len(tokens) : indexOf(value, tokens[j]) # 0 - 1

\* The turn with the fuzzy pass made at flexibility 0 too
searchArrayStepAlwaysFuzzy(value, q, tokens, opts, currentResults) ==
    IF arrayAllTokensFound(value, tokens) THEN Append(currentResults, value)
    ELSE IF opts.flexibility >= 0
            /\ JsLE(levenshtein(toLowerCase(q), toLowerCase(value)), Num(opts.flexibility))
         THEN Append(currentResults, value)
    ELSE currentResults

\* One turn of searchArray's loop, lines 154-172: the value (the string of
\* source[i], lower-cased unless caseSensitive) is pushed when it matches.
searchArrayStep(value, q, tokens, opts, currentResults) ==
    IF arrayAllTokensFound(value, tokens) THEN Append(currentResults, value)
    ELSE IF opts.flexibility > 0
            /\ JsLE(levenshtein(toLowerCase(q), toLowerCase(value)), Num(opts.flexibility))
         THEN Append(currentResults, value)
    ELSE currentResults

arrayValue(element, opts) ==
    IF opts.caseSensitive THEN JsString(element) ELSE toLowerCase(JsString(element))

\* The for loop of searchArray, from the i-th element (i 1-based): each
\* source[i] is overwritten with its string
RECURSIVE searchArrayFrom(_, _, _, _, _, _)
searchArrayFrom(items, i, q, tokens, opts, currentResults) ==
    IF i > Len(items) THEN [source |-> items, currentResults |-> currentResults]
    ELSE LET value == arrayValue(items[i], opts)
         IN  searchArrayFrom([items EXCEPT ![i] = Str(value)], i + 1, q, tokens, opts,
                             searchArrayStep(value, q, tokens, opts, currentResults))

\* The results, and the items of the source array as the call leaves them
searchArray(items, q, tokens, opts) == searchArrayFrom(items, 1, q, tokens, opts, <<>>)

\* searchObject, lines 204-211
objectAllTokensFound(value, tokens) ==
    \A i \in 1..Len(tokens) : indexOf(value, tokens[i]) # 0 - 1

\* searchObject, lines 201-222: a value that is not a plain object
searchObjectLeaf(v, q, tokens, opts, currentResults) ==
    LET value == IF opts.caseSensitive THEN JsString(v) ELSE toLowerCase(JsString(v))
    IN  IF objectAllTokensFound(value, tokens) THEN Append(currentResults, value)
        ELSE IF opts.flexibility > 0
                /\ JsLE(levenshtein(toLowerCase(q), toLowerCase(value)), Num(opts.flexibility))
             THEN Append(currentResults, value)
        ELSE currentResults

\* The loop with a nested object taken as a leaf
RECURSIVE searchObjectFlat(_, _, _, _, _, _)
searchObjectFlat(props, k, q, tokens, opts, currentResults) ==
    IF k > Len(props) THEN currentResults
    ELSE searchObjectFlat(props, k + 1, q, tokens, opts,
            searchObjectLeaf(props[k].value, q, tokens, opts, currentResults))

\* The for..in loop of searchObject, from the k-th own property
RECURSIVE searchObjectFrom(_, _, _, _, _, _)
searchObjectFrom(props, k, q, tokens, opts, currentResults) ==
    IF k > Len(props) THEN currentResults
    ELSE LET value == props[k].value
         IN  searchObjectFrom(props, k + 1, q, tokens, opts,
                IF getDataType(value) = "object"
                THEN searchObjectFrom(value.props, 1, q, tokens, opts, currentResults)
                ELSE searchObjectLeaf(value, q, tokens, opts, currentResults))

searchObject(obj, q, tokens, opts) == searchObjectFrom(obj.props, 1, q, tokens, opts, <<>>)

\* One pass of the for loop of sortResults, from index i (0-based)
RECURSIVE sortPass(_, _, _, _)
sortPass(results, q, i, swapped) ==
    IF i >= Len(results) THEN [results |-> results, swapped |-> swapped]
    ELSE IF /\ Len(results[i + 1]) > 0
            /\ i + 2 <= Len(results)
            /\ Len(results[i + 2]) > 0
            /\ JsGT(levenshtein(q, results[i + 1]), levenshtein(q, results[i + 2]))
         THEN sortPass([results EXCEPT ![i + 1] = results[i + 2], ![i + 2] = results[i + 1]],
                       q, i + 1, TRUE)
    ELSE sortPass(results, q, i + 1, swapped)

RECURSIVE sortResults(_, _)
sortResults(results, q) ==
    LET pass == sortPass(results, q, 0, FALSE)
    IN  IF pass.swapped THEN sortResults(pass.results, q) ELSE pass.results

RECURSIVE UniqueFrom(_, _)
UniqueFrom(arr, i) ==
    IF i > Len(arr) THEN <<>>
    ELSE (IF arrayIndexOf(arr, arr[i]) = i - 1 THEN <<arr[i]>> ELSE <<>>)
            \o UniqueFrom(arr, i + 1)

\* The array with its duplicates left in
createUniqueArrayKeepAll(arr) == arr

createUniqueArray(arr) == UniqueFrom(arr, 1)

\* How a block of code completes: it returns v, throws e, or runs to its end
Return(v) == [completion |-> "return", value |-> v]
Throw(e) == [completion |-> "throw", value |-> e]
Normal == [completion |-> "normal"]

\* new Error(message), the message being the concatenation of the parts
JsError(parts) == [type |-> "error", message |-> parts]

\* The validation with the whitespace-only query let through
searchTryUntrimmed(q, src) ==
    IF q.type # "string" \/ Len(q.chars) = 0
    THEN Throw(JsError(<<"Invalid search query">>))
    ELSE IF getDataType(src) # "array" /\ getDataType(src) # "object"
    THEN Throw(JsError(<<"Invalid source type: ", TypeOf(src)>>))
    ELSE Normal

\* The try block of search
searchTry(q, src) ==
    IF q.type # "string" \/ Len(trim(q.chars)) = 0
    THEN Throw(JsError(<<"Invalid search query">>))
    ELSE IF getDataType(src) # "array" /\ getDataType(src) # "object"
    THEN Throw(JsError(<<"Invalid source type: ", TypeOf(src)>>))
    ELSE Normal

\* The catch block of search: the error is logged and the empty results returned
searchCatch(e, results) == [consoleError |-> <<e.message>>, returned |-> Return(results)]

\* search(q, src, lim) on an instance whose options are opts: what it returns or
\* throws, what it logs, the matcher's output, and src as the call leaves it
search(q, src, lim, opts) ==
    LET results == <<>>
        lim1 == IF lim.type = "undefined" THEN 1 ELSE lim.num
        sourceDataType == getDataType(src)
        tried == searchTry(q, src)
    IN  IF tried.completion = "throw"
        THEN [source |-> src, searchResults |-> <<>>] @@ searchCatch(tried.value, results)
        ELSE
        LET q1 == prepareQuery(q.chars, opts)
            tokens == tokenize(q1, <<" ">>)
            found == IF sourceDataType = "array" THEN searchArray(src.items, q1, tokens, opts)
                     ELSE IF sourceDataType = "object"
                     THEN [source |-> src.props,
                           currentResults |-> searchObject(src, q1, tokens, opts)]
                     ELSE [source |-> <<>>, currentResults |-> <<>>]
            after == IF sourceDataType = "array" THEN Arr(found.source) ELSE src
            sorted == slice0(sortResults(createUniqueArray(found.currentResults), q1), lim1)
        IN  [source |-> after,
             searchResults |-> found.currentResults,
             consoleError |-> <<>>,
             returned |-> Return(IF Len(found.currentResults) > 0
                                 THEN results \o sorted ELSE results)]

----------------------------------------------------------------------------
(* The inputs *)

MaxPoolLen == 2      \* arrays of up to this many elements
MaxLimit == 3        \* limit arguments 1..MaxLimit
MaxFlexibility == 2  \* options.flexibility in 0..MaxFlexibility
MaxObjectSize == 3   \* objects of up to this many properties, nested ones included
MaxTokenizeLen == 4  \* inputs of tokenize of up to this many characters
MaxWordLen == 3      \* words given to levenshtein of up to this many letters
MaxQueryWords == 2   \* queries given to removeStopWords of up to this many words
MaxQueryLen == 4     \* queries given to the exclusions step of up to this many characters
MaxObjects == 2      \* pools of up to this many objects that refer to one another
MaxStack == 4        \* the calls the engine's stack holds before a RangeError

June == <<"J","u","n","e">>
July == <<"J","u","l","y">>
August == <<"A","u","g","u","s","t">>
june == <<"j","u","n","e">>

\* The elements of the array pools
LeafValues == {Str(June), Str(July), Str(August), Str(june), Str(<<>>)}

ArrayPools ==
    {Arr(items) : items \in UNION {[1..n -> LeafValues] : n \in 0..MaxPoolLen}}
        \cup {Arr(<<Str(June), Str(July), Str(August)>>),
              Arr(<<Str(June), Str(June), Str(July)>>),
              Arr(<<Num(5), Str(June)>>)}

KeyNames == <<"k1", "k2", "k3", "k4", "k5", "k6">>

Props(values) == [i \in 1..Len(values) |-> [key |-> KeyNames[i], value |-> values[i]]]

\* The values of the properties of the object pools
ObjectLeafValues == {Str(June), Num(5)}

\* The sequences of property values that hold n properties in all, and the
\* values that hold n properties, themselves counted
RECURSIVE ValuesOfSize(_), Forests(_)
ValuesOfSize(n) ==
    IF n = 1 THEN ObjectLeafValues \cup {Obj(<<>>)}
    ELSE {Obj(Props(f)) : f \in Forests(n - 1)}

Forests(n) ==
    IF n = 0 THEN {<<>>}
    ELSE UNION {{<<v>> \o rest : v \in ValuesOfSize(k), rest \in Forests(n - k)} : k \in 1..n}

NestedObjects == {Obj(Props(f)) : f \in UNION {Forests(n) : n \in 0..MaxObjectSize}}

ObjectPools ==
    {Obj(<<[key |-> "name", value |-> Str(June)],
           [key |-> "location", value |-> Str(July)]>>),
     Obj(<<[key |-> "first", value |-> Obj(<<[key |-> "month", value |-> Str(<<>>)]>>)],
           [key |-> "second", value |-> Str(June)]>>)}

StringPools == {Str(<<"J","u","n","e"," ","J","u","l","y">>)}

OtherPools == {Num(5), Num(0), Bool(TRUE), Undefined, Null}

Pools == ArrayPools \cup ObjectPools \cup StringPools \cup OtherPools

Queries ==
    {Str(<<"j","u","n">>), Str(<<"J","U","N">>), Str(<<"j","u">>),
     Str(<<"y"," ","j","u">>), Str(<<" ","J","u","n"," ">>), Str(<<"x","y","z">>),
     Str(<<"t","h","e">>), Str(<<>>), Str(<<" ">>), Num(5), Undefined}

\* The strings of up to n characters of an alphabet
StringsOver(alphabet, n) == UNION {[1..k -> alphabet] : k \in 0..n}

\* The arguments of tokenize: the delimiter omitted, one character, or two
TokenizeInputs == StringsOver({"a", "_", " "}, MaxTokenizeLen)

Delimiters == {Undefined, Str(<<" ">>), Str(<<"_">>), Str(<<"_", "_">>)}

\* The arguments of levenshtein: every short word of two letters, the empty one
\* included, and two words of the tests
Words == StringsOver({"a", "b"}, MaxWordLen) \cup {<<"j","u","n">>, june}

\* The pools, options and arguments of calls that share a pool
SharedPools ==
    {Arr(<<Str(June)>>), Arr(<<Str(June), Str(July)>>), Arr(<<Num(5), Str(June)>>),
     Obj(<<[key |-> "k1", value |-> Str(June)]>>)}

SharedQueries == {Str(<<"j","u","n">>), Str(<<"J","u","n">>), Str(<<"5">>)}

SharedLimits == {Undefined, Num(2)}

\* The queries given to removeStopWords: up to MaxQueryWords words with one
\* space between, stop words in lower and in upper case among them
QueryWords == {<<"t","h","e">>, <<"T","h","e">>, <<"A","N","D">>, <<"j","u","n">>, <<>>}

StopWordQueries ==
    {Join(words, <<" ">>) : words \in UNION {[1..n -> QueryWords] : n \in 1..MaxQueryWords}}

\* The queries and the exclusions of the exclusions step
ExclusionQueries == StringsOver({"x", "a", " "}, MaxQueryLen)

ExclusionLists == {<< <<"x">> >>, << <<"x">>, <<"a">> >>, << <<"x","a">> >>}

\* A property value that is an object, by its identity
Ref(o) == [type |-> "object", ref |-> o]

\* The objects of a pool that refers to objects by identity: each holds the
\* string 'June' and at most one other object of the pool, itself included,
\* before the string or after it
ObjectShapes ==
    LET name == [key |-> "name", value |-> Str(June)]
        link(o) == [key |-> "link", value |-> Ref(o)]
    IN  {<<name>>} \cup UNION {{<<name, link(o)>>, <<link(o), name>>} : o \in 1..MaxObjects}

Heaps == [1..MaxObjects -> ObjectShapes]

HeapQueries == {Str(<<"j","u","n">>), Str(<<"x","y","z">>)}

HeapLimits == {Undefined, Num(MaxLimit)}

Limits == {Undefined} \cup {Num(n) : n \in 1..MaxLimit}

\* The options the constructor leaves in this.options
defaults ==
    [caseSensitive |-> FALSE, flexibility |-> 2, stemming |-> FALSE, exclusions |-> <<>>,
     ignoreStopWords |-> FALSE]

Options ==
    {[defaults EXCEPT !.caseSensitive = c, !.flexibility = f, !.ignoreStopWords = w] :
        c \in BOOLEAN, f \in 0..MaxFlexibility, w \in BOOLEAN}

SharedOptions == {o \in Options : ~o.ignoreStopWords /\ o.flexibility \in {0, defaults.flexibility}}

----------------------------------------------------------------------------
(* The state machine *)

Init ==
    /\ options \in Options
    /\ source \in Pools
    /\ called = FALSE
    /\ query = Undefined
    /\ limit = Undefined
    /\ sourceBefore = Undefined
    /\ searchResults = <<>>
    /\ returned = Undefined
    /\ consoleError = <<>>
    /\ pool0 = source
    /\ opName = "none"
    /\ opArgs = <<>>
    /\ opResult = Undefined
    /\ heap = <<>>
    /\ stack = <<>>
    /\ visits = <<>>

\* new Haystack(opts).search(q, source, lim), or the same call on the instance
\* at hand when opts are its options
SearchBy(opts, q, lim) ==
    LET call == search(q, source, lim, opts)
    IN  /\ options' = opts
        /\ called' = TRUE
        /\ query' = q
        /\ limit' = lim
        /\ sourceBefore' = source
        /\ source' = call.source
        /\ searchResults' = call.searchResults
        /\ returned' = call.returned
        /\ consoleError' = call.consoleError
        /\ UNCHANGED <<pool0, opName, opArgs, opResult, heap, stack, visits>>

\* haystack.search(q, source, lim), the first call on the pool
Search(q, lim) == ~called /\ SearchBy(options, q, lim)

Next == \E q \in Queries, lim \in Limits : Search(q, lim)

Spec == Init /\ [][Next]_vars

\* The calls on nested objects
InitObject ==
    /\ options \in {o \in Options : ~o.ignoreStopWords}
    /\ source \in NestedObjects
    /\ called = FALSE
    /\ query = Undefined
    /\ limit = Undefined
    /\ sourceBefore = Undefined
    /\ searchResults = <<>>
    /\ returned = Undefined
    /\ consoleError = <<>>
    /\ pool0 = source
    /\ opName = "none"
    /\ opArgs = <<>>
    /\ opResult = Undefined
    /\ heap = <<>>
    /\ stack = <<>>
    /\ visits = <<>>

SpecObject == InitObject /\ [][Next]_vars

\* Calls one after another on one pool object, by the same instance or by
\* another one made for the call, each with its own options
InitShared ==
    /\ options = defaults
    /\ source \in SharedPools
    /\ called = FALSE
    /\ query = Undefined
    /\ limit = Undefined
    /\ sourceBefore = Undefined
    /\ searchResults = <<>>
    /\ returned = Undefined
    /\ consoleError = <<>>
    /\ pool0 = source
    /\ opName = "none"
    /\ opArgs = <<>>
    /\ opResult = Undefined
    /\ heap = <<>>
    /\ stack = <<>>
    /\ visits = <<>>

NextShared ==
    \E opts \in SharedOptions, q \in SharedQueries, lim \in SharedLimits : SearchBy(opts, q, lim)

SpecShared == InitShared /\ [][NextShared]_vars

\* The functions applied on their own, once each: they keep no state
InitPure ==
    /\ options = defaults
    /\ source = Arr(<<>>)
    /\ called = FALSE
    /\ query = Undefined
    /\ limit = Undefined
    /\ sourceBefore = Undefined
    /\ searchResults = <<>>
    /\ returned = Undefined
    /\ consoleError = <<>>
    /\ pool0 = source
    /\ opName = "none"
    /\ opArgs = <<>>
    /\ opResult = Undefined
    /\ heap = <<>>
    /\ stack = <<>>
    /\ visits = <<>>

Apply(name, args, result) ==
    /\ opName = "none"
    /\ opName' = name
    /\ opArgs' = args
    /\ opResult' = result
    /\ UNCHANGED <<options, source, called, query, limit, sourceBefore, searchResults,
                   returned, consoleError, pool0, heap, stack, visits>>

\* haystack.tokenize(input, delimiter), and haystack.tokenize(input)
Tokenize(input, delimiter) ==
    Apply("tokenize", <<input, delimiter>>,
          tokenize(input, IF delimiter.type = "undefined" THEN <<" ">> ELSE delimiter.chars))

NextTokenize == \E input \in TokenizeInputs, delimiter \in Delimiters : Tokenize(input, delimiter)

SpecTokenize == InitPure /\ [][NextTokenize]_vars

\* levenshtein(word1, word2), the module's distance function
Levenshtein(word1, word2) ==
    Apply("levenshtein", <<word1, word2>>, levenshtein(word1, word2))

NextLevenshtein == \E word1 \in Words, word2 \in Words : Levenshtein(word1, word2)

SpecLevenshtein == InitPure /\ [][NextLevenshtein]_vars

\* removeStopWords(q), the first step of prepareQuery
RemoveStopWords(q) == Apply("removeStopWords", <<q>>, removeStopWords(q))

\* The exclusions step of prepareQuery: the forEach over options.exclusions
Exclude(q, exclusions) == Apply("exclusions", <<q, exclusions>>, RemoveExclusions(q, exclusions))

NextPrepareQuery ==
    \/ \E q \in StopWordQueries : RemoveStopWords(q)
    \/ \E q \in ExclusionQueries, exclusions \in ExclusionLists : Exclude(q, exclusions)

SpecPrepareQuery == InitPure /\ [][NextPrepareQuery]_vars

\* A call of search on an object pool whose objects may hold one another, the
\* recursion of searchObject taken one step at a time
InitHeap ==
    /\ options = defaults
    /\ heap \in Heaps
    /\ source = Ref(1)
    /\ called = FALSE
    /\ query = Undefined
    /\ limit = Undefined
    /\ sourceBefore = Undefined
    /\ searchResults = <<>>
    /\ returned = Undefined
    /\ consoleError = <<>>
    /\ pool0 = source
    /\ opName = "none"
    /\ opArgs = <<>>
    /\ opResult = Undefined
    /\ stack = <<>>
    /\ visits = [o \in 1..MaxObjects |-> 0]

\* The call in progress, the property its for..in loop is at, and the query
\* as search prepared it
Frame == stack[Len(stack)]
AtProperty == Frame.k <= Len(heap[Frame.obj])
Value == heap[Frame.obj][Frame.k].value
PreparedQuery == prepareQuery(query.chars, options)

\* search(q, source, lim) up to its call of searchObject(source, ...)
SearchObjectPool(q, lim) ==
    /\ ~called
    /\ searchTry(q, source).completion = "normal"
    /\ called' = TRUE
    /\ query' = q
    /\ limit' = lim
    /\ sourceBefore' = source
    /\ searchResults' = <<>>
    /\ stack' = <<[obj |-> source.ref, k |-> 1]>>
    /\ visits' = [visits EXCEPT ![source.ref] = @ + 1]
    /\ UNCHANGED <<options, source, returned, consoleError, pool0, opName, opArgs,
                   opResult, heap>>

\* The loop at a value that is no object: matched, and pushed or not
Leaf ==
    /\ Len(stack) > 0 /\ AtProperty
    /\ getDataType(Value) # "object"
    /\ searchResults' = searchObjectLeaf(Value, PreparedQuery,
                                         tokenize(PreparedQuery, <<" ">>), options, searchResults)
    /\ stack' = [stack EXCEPT ![Len(stack)].k = @ + 1]
    /\ UNCHANGED <<options, source, called, query, limit, sourceBefore, returned,
                   consoleError, pool0, opName, opArgs, opResult, heap, visits>>

\* The loop at a value that is an object: searchObject calls itself on it
Descend ==
    /\ Len(stack) > 0 /\ AtProperty
    /\ getDataType(Value) = "object"
    /\ Len(stack) < MaxStack
    /\ stack' = Append(stack, [obj |-> Value.ref, k |-> 1])
    /\ visits' = [visits EXCEPT ![Value.ref] = @ + 1]
    /\ UNCHANGED <<options, source, called, query, limit, sourceBefore, searchResults,
                   returned, consoleError, pool0, opName, opArgs, opResult, heap>>

\* The same with the stack full: the engine throws a RangeError, which no
\* frame catches, and search ends with it
StackOverflow ==
    /\ Len(stack) > 0 /\ AtProperty
    /\ getDataType(Value) = "object"
    /\ Len(stack) = MaxStack
    /\ stack' = <<>>
    /\ returned' = Throw(JsError(<<"Maximum call stack size exceeded">>))
    /\ UNCHANGED <<options, source, called, query, limit, sourceBefore, searchResults,
                   consoleError, pool0, opName, opArgs, opResult, heap, visits>>

\* A nested call of searchObject returns currentResults to the loop that made it
ReturnResults ==
    /\ Len(stack) > 1 /\ ~AtProperty
    /\ stack' = [SubSeq(stack, 1, Len(stack) - 1) EXCEPT ![Len(stack) - 1].k = @ + 1]
    /\ UNCHANGED <<options, source, called, query, limit, sourceBefore, searchResults,
                   returned, consoleError, pool0, opName, opArgs, opResult, heap, visits>>

\* The outermost call returns to search, which ranks the results and returns
Finish ==
    /\ Len(stack) = 1 /\ ~AtProperty
    /\ stack' = <<>>
    /\ returned' =
          Return(IF Len(searchResults) > 0
                 THEN slice0(sortResults(createUniqueArray(searchResults), PreparedQuery),
                             IF limit.type = "undefined" THEN 1 ELSE limit.num)
                 ELSE <<>>)
    /\ UNCHANGED <<options, source, called, query, limit, sourceBefore, searchResults,
                   consoleError, pool0, opName, opArgs, opResult, heap, visits>>

NextHeap ==
    \/ \E q \in HeapQueries, lim \in HeapLimits : SearchObjectPool(q, lim)
    \/ Leaf
    \/ Descend
    \/ StackOverflow
    \/ ReturnResults
    \/ Finish

SpecHeap == InitHeap /\ [][NextHeap]_vars

\* search is one synchronous call: once made it runs on until it ends
FairSpecHeap == SpecHeap /\ WF_vars(NextHeap)

----------------------------------------------------------------------------
(* The terms of the specification, in which the properties are stated *)

Range(seq) == {seq[i] : i \in 1..Len(seq)}

\* t occurs in s
Contains(s, t) == \E i \in 1..(Len(s) - Len(t) + 1) : SubSeq(s, i, i + Len(t) - 1) = t

\* distance(a, b) of the specification: the least number of insertions, deletions
\* and substitutions of one character that turn a into b
EditDistance(a, b) ==
    LET d[i \in 0..Len(a), j \in 0..Len(b)] ==
            IF i = 0 THEN j
            ELSE IF j = 0 THEN i
            ELSE LET sub == d[i - 1, j - 1] + (IF a[i] = b[j] THEN 0 ELSE 1)
                     del == d[i - 1, j] + 1
                     ins == d[i, j - 1] + 1
                 IN  IF sub <= del /\ sub <= ins THEN sub
                     ELSE IF del <= ins THEN del ELSE ins
    IN  d[Len(a), Len(b)]

\* The leaves of a mapping: its values that are no mappings, depth first
RECURSIVE FlattenLeaves(_)
FlattenLeaves(props) ==
    IF Len(props) = 0 THEN <<>>
    ELSE (IF Head(props).value.type = "object" THEN FlattenLeaves(Head(props).value.props)
          ELSE <<Head(props).value>>) \o FlattenLeaves(Tail(props))

\* The last call's query is a string with something other than spaces in it
QueryIsValid == query.type = "string" /\ \E i \in 1..Len(query.chars) : query.chars[i] # " "

\* The last call's source is no pool of any kind
SourceIsUnsupported == sourceBefore.type \in {"number", "boolean", "undefined", "null"}

\* The last call got as far as the matcher
MatcherRan == called /\ QueryIsValid /\ sourceBefore.type \in {"array", "object"}

\* The leaves of the pool the last call was given, each as a string
PoolLeaves ==
    LET values == IF sourceBefore.type = "array" THEN sourceBefore.items
                  ELSE FlattenLeaves(sourceBefore.props)
    IN  [i \in 1..Len(values) |-> JsString(values[i])]

\* A leaf, case-folded as the options say
Folded(leaf) == IF options.caseSensitive THEN leaf ELSE toLowerCase(leaf)

CanonicalQuery == prepareQuery(query.chars, options)

QueryTokens == tokenize(CanonicalQuery, <<" ">>)

HasEveryToken(s) == \A j \in 1..Len(QueryTokens) : Contains(s, QueryTokens[j])

\* The limit in force in the last call
LimitInForce == IF limit.type = "undefined" THEN 1 ELSE limit.num

Result == returned.value

NoDuplicates(seq) == \A i, j \in 1..Len(seq) : seq[i] = seq[j] => i = j

----------------------------------------------------------------------------
(* The properties *)

\* C1: a call whose query is not a string, is empty or is only spaces, or whose
\* source is a number, a boolean or absent, returns the empty sequence, logs
\* exactly one error and throws nothing -- also when both are invalid.
C1_InvalidInput ==
    (called /\ (~QueryIsValid \/ SourceIsUnsupported)) =>
        /\ returned = Return(<<>>)
        /\ Len(consoleError) = 1

C1_Witness ==
    /\ called
    /\ query = Str(<<" ">>)
    /\ sourceBefore = Num(5)
    /\ returned = Return(<<>>)
    /\ consoleError = << <<"Invalid search query">> >>

\* C2: the sequence search returns has at most limit entries (at most one when
\* the limit is omitted) and holds no string twice.
C2_LimitAndUnique ==
    called =>
        /\ returned.completion = "return"
        /\ Len(Result) <= LimitInForce
        /\ NoDuplicates(Result)

C2_Witness ==
    /\ MatcherRan
    /\ ~NoDuplicates(searchResults)
    /\ Cardinality(Range(searchResults)) > LimitInForce
    /\ Len(Result) = LimitInForce

\* C3: the returned sequence is sorted by distance to the canonical query: no
\* entry is followed by one that the program's distance function puts nearer.
C3_Sorted ==
    MatcherRan =>
        \A i \in 1..(Len(Result) - 1) :
            ~JsGT(levenshtein(CanonicalQuery, Result[i]),
                  levenshtein(CanonicalQuery, Result[i + 1]))

\* C4: whatever the flexibility, every leaf that (case-folded) contains every
\* token of the canonical query is in the matcher's output, and is in the
\* result when the limit is at least the number of distinct matches.
C4_TokenMatchIncluded ==
    MatcherRan =>
        \A i \in 1..Len(PoolLeaves) :
            HasEveryToken(Folded(PoolLeaves[i])) =>
                /\ Folded(PoolLeaves[i]) \in Range(searchResults)
                /\ (LimitInForce >= Cardinality(Range(searchResults)) =>
                        Folded(PoolLeaves[i]) \in Range(Result))

C4_Witness ==
    /\ MatcherRan
    /\ options.flexibility = 0
    /\ query = Str(<<"y"," ","j","u">>)
    /\ Result = << <<"j","u","l","y">> >>

\* C5: with a flexibility f > 0, a leaf that lacks some token is in the matcher's
\* output exactly when its edit distance to the canonical query is at most f;
\* so "august" is never returned for the query "jun" when f = 2.
C5_FuzzyWithinFlexibility ==
    (MatcherRan /\ options.flexibility > 0) =>
        /\ \A i \in 1..Len(PoolLeaves) :
              ~HasEveryToken(Folded(PoolLeaves[i])) =>
                  (Folded(PoolLeaves[i]) \in Range(searchResults)
                      <=> EditDistance(CanonicalQuery, Folded(PoolLeaves[i]))
                              <= options.flexibility)
        /\ (/\ query = Str(<<"j","u","n">>)
            /\ options.flexibility = 2
            /\ sourceBefore = Arr(<<Str(June), Str(July), Str(August)>>))
              => toLowerCase(August) \notin Range(Result)

\* C6: with flexibility 0 every entry of the result is a case-folded leaf that
\* contains every token of the canonical query.
C6_ExactOnly ==
    (MatcherRan /\ options.flexibility = 0) =>
        \A i \in 1..Len(Result) :
            /\ \E k \in 1..Len(PoolLeaves) : Folded(PoolLeaves[k]) = Result[i]
            /\ HasEveryToken(Result[i])

\* a leaf one edit away from the query is left out, another leaf is returned
C6_Witness ==
    /\ MatcherRan
    /\ options.flexibility = 0
    /\ query = Str(<<"j","u","n">>)
    /\ sourceBefore = Arr(<<Str(July), Str(June)>>)
    /\ Result = <<june>>

\* C7: with caseSensitive the entries keep the casing of the leaves, and a leaf is
\* matched exactly when it holds every token or, the flexibility f being
\* positive, is within f of the canonical query, neither being lower-cased.
C7_CaseSensitive ==
    (MatcherRan /\ options.caseSensitive) =>
        /\ Range(searchResults) \subseteq Range(PoolLeaves)
        /\ \A i \in 1..Len(PoolLeaves) :
              PoolLeaves[i] \in Range(searchResults) <=>
                  \/ HasEveryToken(PoolLeaves[i])
                  \/ /\ options.flexibility > 0
                     /\ JsLE(levenshtein(CanonicalQuery, PoolLeaves[i]),
                             Num(options.flexibility))

\* C8: search over a nested mapping returns what search returns over the
\* sequence of the mapping's leaves, taken depth first in key order.
C8_ObjectAsFlatArray ==
    (called /\ sourceBefore.type = "object") =>
        LET flat == search(query, Arr(FlattenLeaves(sourceBefore.props)), limit, options)
        IN  /\ returned = flat.returned
            /\ consoleError = flat.consoleError

\* a leaf of a nested mapping is returned after a leaf of the outer one
C8_Witness ==
    /\ called
    /\ sourceBefore.type = "object"
    /\ \E k \in 1..Len(sourceBefore.props) :
          /\ sourceBefore.props[k].value.type = "object"
          /\ Len(sourceBefore.props[k].value.props) > 0
    /\ Len(Result) = 2

\* C9: a source that is one string is searched as the sequence of its tokens
\* (split at single spaces), and no error is logged.
C9_StringSource ==
    (called /\ QueryIsValid /\ sourceBefore.type = "string" /\ Len(sourceBefore.chars) > 0) =>
        LET leaves == tokenize(sourceBefore.chars, <<" ">>)
            asArray == search(query, Arr([i \in 1..Len(leaves) |-> Str(leaves[i])]),
                              limit, options)
        IN  /\ returned = asArray.returned
            /\ consoleError = <<>>

\* C10: a call whose query and source are both valid returns a sequence and
\* logs no error, the empty sequence when no leaf matches.
C10_ValidInput ==
    (/\ called
     /\ QueryIsValid
     /\ \/ sourceBefore.type \in {"array", "object"}
        \/ sourceBefore.type = "string" /\ Len(sourceBefore.chars) > 0) =>
        /\ returned.completion = "return"
        /\ consoleError = <<>>
        /\ (searchResults = <<>> => Result = <<>>)

----------------------------------------------------------------------------
(* The calls on which the program and the specification part *)

\* search("ju", ["", "June"], 2) returns ["", "june"], the farther entry first
C3_FailingInput ==
    /\ called
    /\ options = defaults
    /\ query = Str(<<"j","u">>)
    /\ sourceBefore = Arr(<<Str(<<>>), Str(June)>>)
    /\ limit = Num(2)
    /\ Result = << <<>>, june >>
    /\ levenshtein(CanonicalQuery, Result[1]) = Num(2)
    /\ levenshtein(CanonicalQuery, Result[2]) = Num(0)

\* search("jun", ["June", "July", "August"], 3) returns "august" too
C5_FailingInput ==
    /\ called
    /\ options = defaults
    /\ query = Str(<<"j","u","n">>)
    /\ sourceBefore = Arr(<<Str(June), Str(July), Str(August)>>)
    /\ limit = Num(3)
    /\ Result = <<june, toLowerCase(July), toLowerCase(August)>>
    /\ EditDistance(CanonicalQuery, toLowerCase(August)) = 5

\* the case-sensitive search("JUN", ["June"]) at flexibility 1 returns "June"
C7_FailingInput ==
    /\ called
    /\ options = [defaults EXCEPT !.caseSensitive = TRUE, !.flexibility = 1]
    /\ query = Str(<<"J","U","N">>)
    /\ sourceBefore = Arr(<<Str(June)>>)
    /\ Result = <<June>>
    /\ levenshtein(CanonicalQuery, June) = Num(2)

\* search("jun", "June July") returns nothing and logs an error
C9_FailingInput ==
    /\ called
    /\ options = defaults
    /\ query = Str(<<"j","u","n">>)
    /\ sourceBefore = Str(<<"J","u","n","e"," ","J","u","l","y">>)
    /\ Result = <<>>
    /\ consoleError = << <<"Invalid source type: ", "string">> >>

\* search("xyz", "June July"), which no leaf matches, logs an error
C10_FailingInput ==
    /\ called
    /\ options = defaults
    /\ query = Str(<<"x","y","z">>)
    /\ sourceBefore = Str(<<"J","u","n","e"," ","J","u","l","y">>)
    /\ Result = <<>>
    /\ Len(consoleError) = 1

----------------------------------------------------------------------------
(* The functions on their own *)

\* The occurrences of d in s, counted from the left, none overlapping another
RECURSIVE Occurrences(_, _)
Occurrences(s, d) ==
    IF Len(s) < Len(d) THEN 0
    ELSE IF SubSeq(s, 1, Len(d)) = d THEN 1 + Occurrences(SubSeq(s, Len(d) + 1, Len(s)), d)
    ELSE Occurrences(Tail(s), d)

\* The strings of a sequence put end to end, sep between each two
RECURSIVE Joined(_, _)
Joined(strs, sep) ==
    IF Len(strs) = 0 THEN <<>>
    ELSE Head(strs) \o (IF Len(strs) > 1 THEN sep ELSE <<>>) \o Joined(Tail(strs), sep)

\* C11: tokenize splits the input at every occurrence of the delimiter (one space
\* when omitted) and keeps the empty tokens: no token contains the delimiter,
\* there is one token more than occurrences, and the tokens joined with the
\* delimiter are the input.
C11_Tokenize ==
    opName = "tokenize" =>
        LET input == opArgs[1]
            d == IF opArgs[2].type = "undefined" THEN <<" ">> ELSE opArgs[2].chars
        IN  /\ \A i \in 1..Len(opResult) : ~Contains(opResult[i], d)
            /\ Len(opResult) = Occurrences(input, d) + 1
            /\ Joined(opResult, d) = input

\* "_a__" split at "_": an empty token first, between the two, and last
C11_Witness ==
    /\ opName = "tokenize"
    /\ opArgs = << <<"_","a","_","_">>, Str(<<"_">>) >>
    /\ opResult = << <<>>, <<"a">>, <<>>, <<>> >>

----------------------------------------------------------------------------
(* The pool across calls *)

\* C12: a call of search leaves the candidate pool as it was: the elements of a
\* Sequence and the values of a Mapping are the same after the call as before.
C12_PoolUnchanged == called => source = sourceBefore

\* search('jun', ['June']): the matcher ran and the caller's array holds 'june'
C12_FailingInput ==
    /\ called
    /\ query = Str(<<"j","u","n">>)
    /\ ~options.caseSensitive
    /\ sourceBefore = Arr(<<Str(June)>>)
    /\ source = Arr(<<Str(june)>>)

----------------------------------------------------------------------------
(* The distance function on its own *)

\* C13: for non-empty a and b, of the same length or not, the distance function
\* returns the edit distance of a and b.
C13_EditDistance ==
    opName = "levenshtein" /\ opArgs[1] # <<>> /\ opArgs[2] # <<>> =>
        opResult = Num(EditDistance(opArgs[1], opArgs[2]))

\* levenshtein('jun', 'june') returned 0
C13_FailingInput ==
    /\ opName = "levenshtein"
    /\ opArgs = << <<"j","u","n">>, june >>
    /\ opResult = Num(0)

\* C14: when an argument is empty the distance function returns the length of
\* the other one, a number in every case, and 0 for two empty arguments.
C14_EmptyArgument ==
    opName = "levenshtein" =>
        /\ opArgs[1] = <<>> => opResult = Num(Len(opArgs[2]))
        /\ opArgs[2] = <<>> => opResult = Num(Len(opArgs[1]))

\* levenshtein('', 'ab') returned undefined
C14_FailingInput ==
    /\ opName = "levenshtein"
    /\ opArgs = << <<>>, <<"a","b">> >>
    /\ opResult = Undefined

\* C15: the distance function is symmetric: distance(a, b) = distance(b, a).
C15_Symmetric ==
    opName = "levenshtein" => opResult = levenshtein(opArgs[2], opArgs[1])

\* levenshtein('a', 'ab') returned 0, and levenshtein('ab', 'a') is 1
C15_FailingInput ==
    /\ opName = "levenshtein"
    /\ opArgs = << <<"a">>, <<"a","b">> >>
    /\ opResult = Num(0)
    /\ levenshtein(<<"a","b">>, <<"a">>) = Num(1)

\* C16: calls of search are independent: in any sequence of calls on one pool
\* object, by any instances with any options, each call returns what it would
\* return as the only call on the pool as the caller made it.
C16_Independent ==
    called => returned = search(query, pool0, limit, options).returned

\* search('jun', pool) then new Haystack({caseSensitive: true}).search('Jun', pool)
\* on pool = ['June']: the second call finds the array holding 'june'
C16_FailingInput ==
    /\ called
    /\ pool0 = Arr(<<Str(June)>>)
    /\ sourceBefore = Arr(<<Str(june)>>)
    /\ options.caseSensitive
    /\ query = Str(<<"J","u","n">>)
    /\ returned # search(query, pool0, limit, options).returned

----------------------------------------------------------------------------
(* The normalised query *)

\* C17: when the query is empty after normalisation (nothing but stop words
\* with ignoreStopWords, or everything excluded), search returns the empty
\* sequence and matches no leaf against the empty query or an empty token.
C17_EmptyCanonicalQuery ==
    MatcherRan /\ CanonicalQuery = <<>> => searchResults = <<>> /\ Result = <<>>

\* new Haystack({ignoreStopWords: true}).search('the', ['June']) returned ['june']
C17_FailingInput ==
    /\ called
    /\ options.ignoreStopWords /\ ~options.caseSensitive
    /\ query = Str(<<"t","h","e">>)
    /\ sourceBefore = Arr(<<Str(June)>>)
    /\ CanonicalQuery = <<>>
    /\ Result = <<june>>

\* The words whose lower-cased form is no stop word
RECURSIVE WithoutStopWordsOfAnyCase(_)
WithoutStopWordsOfAnyCase(words) ==
    IF Len(words) = 0 THEN <<>>
    ELSE (IF \E k \in 1..Len(stopWords) : stopWords[k] = toLowerCase(Head(words))
          THEN <<>> ELSE <<Head(words)>>) \o WithoutStopWordsOfAnyCase(Tail(words))

\* C18: the stop-word step removes every space-delimited token whose lower-cased
\* form is a stop word, whatever its case ("The", "AND"), keeps every other
\* token and joins what is left with single spaces.
C18_StopWordsOfAnyCase ==
    opName = "removeStopWords" =>
        opResult = Joined(WithoutStopWordsOfAnyCase(split(opArgs[1], <<" ">>)), <<" ">>)

\* removeStopWords('The jun') returned 'The jun'
C18_FailingInput ==
    /\ opName = "removeStopWords"
    /\ opArgs = << <<"T","h","e"," ","j","u","n">> >>
    /\ opResult = <<"T","h","e"," ","j","u","n">>

\* C19: the exclusions step removes every occurrence of every exclusion: no
\* exclusion occurs in the query after the step, also when it occurred more
\* than once before.
C19_NoExclusionLeft ==
    opName = "exclusions" =>
        \A k \in 1..Len(opArgs[2]) : ~Contains(opResult, opArgs[2][k])

\* 'xax' with the exclusions ['x'] came out as 'ax'
C19_FailingInput ==
    /\ opName = "exclusions"
    /\ opArgs = << <<"x","a","x">>, << <<"x">> >> >>
    /\ opResult = <<"a","x">>

----------------------------------------------------------------------------
(* Ties in the ranking *)

\* Where a string is first in a sequence that holds it
FirstIndex(seq, x) == CHOOSE i \in 1..Len(seq) : seq[i] = x /\ \A k \in 1..(i - 1) : seq[k] # x

\* C20: ranking keeps the first occurrence of a duplicated match and sorts
\* stably: two entries of the result at the same distance from the canonical
\* query are in the order in which the matcher first produced them, and an
\* entry cut off by the limit comes, in that order, after every entry at its
\* distance that was kept.
C20_StableRanking ==
    MatcherRan =>
        /\ \A i, j \in 1..Len(Result) :
              i < j /\ EditDistance(CanonicalQuery, Result[i]) = EditDistance(CanonicalQuery, Result[j])
                  => FirstIndex(searchResults, Result[i]) < FirstIndex(searchResults, Result[j])
        /\ \A i \in 1..Len(Result), k \in 1..Len(searchResults) :
              /\ searchResults[k] \notin Range(Result)
              /\ EditDistance(CanonicalQuery, Result[i]) = EditDistance(CanonicalQuery, searchResults[k])
              => FirstIndex(searchResults, Result[i]) < k

\* search('ju', [5, 'June'], 2) returned ['june', '5'], both at distance 2
C20_FailingInput ==
    /\ called
    /\ query = Str(<<"j","u">>)
    /\ limit = Num(2)
    /\ options = defaults
    /\ sourceBefore = Arr(<<Num(5), Str(June)>>)
    /\ searchResults = << <<"5">>, june >>
    /\ Result = << june, <<"5">> >>
    /\ EditDistance(CanonicalQuery, Result[1]) = 2
    /\ EditDistance(CanonicalQuery, Result[2]) = 2

----------------------------------------------------------------------------
(* Pools that hold themselves *)

\* The call of search has returned a sequence
Returned == called /\ stack = <<>> /\ returned.completion = "return"

\* C21: search over an object pool terminates for every pool, one that holds
\* itself (directly or through nested values) included: the traversal enters
\* each object at most once, and the call returns its results.
C21_TerminatesVisitingOnce ==
    /\ [](\A o \in DOMAIN visits : visits[o] <= 1)
    /\ (called ~> Returned)

\* pool = {name: 'June'}; pool.link = pool; search('jun', pool): searchObject
\* was called on pool until the stack was full, and search threw
C21_FailingInput ==
    /\ heap[1] = <<[key |-> "name", value |-> Str(June)], [key |-> "link", value |-> Ref(1)]>>
    /\ called
    /\ query = Str(<<"j","u","n">>)
    /\ stack = <<>>
    /\ visits[1] = MaxStack
    /\ searchResults = [i \in 1..MaxStack |-> june]
    /\ returned = Throw(JsError(<<"Maximum call stack size exceeded">>))

====
